---------------------------- MODULE Spec2Model ----------------------------
(***************************************************************************)
(* A model of generator/c.py, the C back end of the CloudABI generator:    *)
(* CNaming (type names and declarators), CSyscalldefsGenerator (type       *)
(* definitions and layout assertions) and CSyscallsImplGenerator with its  *)
(* two register files (x86-64 and aarch64).                                *)
(*                                                                         *)
(* Text is modelled structurally.  A declarator or an expression is a      *)
(* sequence of tokens; a printed line is a record whose stmt field names   *)
(* the format string and whose other fields are the values formatted into  *)
(* it.  Layout values are pairs <<value on 32 bit, value on 64 bit>>.      *)
(***************************************************************************)
EXTENDS Integers, Sequences, FiniteSets, TLC

VARIABLES
    arch,          \* the CSyscallsImplGenerator subclass in use
    syscall,       \* the syscall node generate_syscall_body is working on
    pc,            \* position inside generate_syscall_body
    i,             \* index of the for loop being run
    defined_regs,  \* the set defined_regs of generate_syscall_body
    out,           \* lines printed by the current generate_syscall_body
    error,         \* the exception that ended generation, or "none"
    generated,     \* number of syscalls this generator has started
    md_type,       \* CGenerator.md_type: [present, size]
    arg,           \* argument of the CNaming/CSyscalldefsGenerator call
    result,        \* what that call returned or printed
    called         \* the call to make, then the method that was called

sysvars == <<arch, syscall, pc, i, defined_regs, out, error, generated>>
defvars == <<md_type, arg, result, called>>
vars == <<arch, syscall, pc, i, defined_regs, out, error, generated,
          md_type, arg, result, called>>

(***************************************************************************)
(* Bounds of the model.                                                    *)
(***************************************************************************)
MaxInputs == 7
MaxOutputs == 3
MaxSyscalls == 2
MaxDepth == 3
MaxValues == 2
MaxLayout == 4

(***************************************************************************)
(* Type nodes (abi.py supplies them; their fields are those c.py reads).   *)
(***************************************************************************)
None == "None"

VoidType == [kind |-> "void"]

IntType(name, size) == [kind |-> "int", name |-> name, size |-> size]

StructType(name, size) == [kind |-> "struct", name |-> name, size |-> size]

PointerType(target_type, const) ==
    [kind |-> "pointer", target_type |-> target_type, const |-> const,
     size |-> <<4, 8>>]

ArrayType(count, element_type) ==
    [kind |-> "array", count |-> count, element_type |-> element_type]

UserDefinedKinds == {"struct", "enum", "flags", "opaque", "function", "alias"}

uint32 == IntType("uint32", <<4, 4>>)
uint64 == IntType("uint64", <<8, 8>>)
char == IntType("char", <<1, 1>>)

(***************************************************************************)
(* CNaming, with prefix 'cloudabi_', no md_prefix and c11 = True.          *)
(***************************************************************************)
prefix == "cloudabi_"

RECURSIVE typename(_)
RECURSIVE vardecl(_, _, _)

typename(type) ==
    IF type.kind = "void" THEN <<"void">>
    ELSE IF type.kind = "int"
    THEN IF type.name = "char" THEN <<"char">> ELSE <<type.name \o "_t">>
    ELSE IF type.kind \in UserDefinedKinds
    THEN <<prefix \o type.name \o "_t">>
    ELSE IF type.kind = "atomic"
    THEN <<"_Atomic", "(">> \o typename(type.target_type) \o <<")">>
    ELSE vardecl(type, <<>>, FALSE)

vardecl_noparens(type, name, array_need_parens) ==
    IF type.kind = "pointer"
    THEN LET decl == vardecl(type.target_type, <<"*">> \o name, TRUE)
         IN  IF type.const THEN <<"const", " ">> \o decl ELSE decl
    ELSE IF type.kind = "array"
    THEN vardecl(type.element_type,
                 name \o <<"[", ToString(type.count), "]">>, FALSE)
    ELSE typename(type) \o <<" ">> \o name

vardecl(type, name, array_need_parens) ==
    IF type.kind = "pointer"
    THEN LET decl == vardecl(type.target_type, <<"*">> \o name, TRUE)
         IN  IF type.const THEN <<"const", " ">> \o decl ELSE decl
    ELSE IF type.kind = "array"
    THEN LET pname == IF array_need_parens
                      THEN <<"(">> \o name \o <<")">>
                      ELSE name
         IN  vardecl(type.element_type,
                     pname \o <<"[", ToString(type.count), "]">>, FALSE)
    ELSE typename(type) \o <<" ">> \o name

(***************************************************************************)
(* The two register files.                                                 *)
(***************************************************************************)
Archs == {"x86_64", "aarch64"}

syscall_num_register(a) == IF a = "x86_64" THEN "rax" ELSE "x8"

input_registers(a) ==
    IF a = "x86_64"
    THEN <<"rdi", "rsi", "rdx", "r10", "r8", "r9">>
    ELSE <<"x0", "x1", "x2", "x3", "x4", "x5">>

output_registers(a) ==
    IF a = "x86_64" THEN <<"rax", "rdx">> ELSE <<"x0", "x1">>

errno_register(a) == IF a = "x86_64" THEN "rax" ELSE "x0"

register_t(a) == uint64

okay_t(a) == IF a = "x86_64" THEN char ELSE register_t(a)

asm(a) == IF a = "x86_64" THEN "syscall" ELSE "svc 0"

asm_check(a) == IF a = "x86_64" THEN "setnc %0" ELSE "cset %0, cc"

clobbers(a) ==
    IF a = "x86_64"
    THEN <<"memory", "rcx", "rdx", "r8", "r9", "r10", "r11">>
    ELSE <<"memory", "x0", "x1", "x2", "x3", "x4", "x5", "x6", "x7",
           "x8", "x9", "x10", "x11", "x12", "x13", "x14", "x15",
           "x16", "x17", "x18",
           "d0", "d1", "d2", "d3", "d4", "d5", "d6", "d7">>

(***************************************************************************)
(* _ccast: [raised, expr].  expr is empty when the cast raised.            *)
(***************************************************************************)
_ccast_always_value(type_from, type_to, name) ==
    [raised |-> FALSE, expr |-> <<"(">> \o typename(type_to) \o <<")", name>>]

_ccast(type_from, type_to, name) ==
    IF type_from.kind = "struct" \/ type_to.kind = "struct"
    THEN IF type_from.size # type_to.size
         THEN [raised |-> TRUE, expr |-> <<>>]
         ELSE [raised |-> FALSE,
               expr |-> <<"*", "(">>
                        \o typename(PointerType(type_to, FALSE))
                        \o <<")", "&", name>>]
    ELSE [raised |-> FALSE,
          expr |-> <<"(">> \o typename(type_to) \o <<")", name>>]

(***************************************************************************)
(* Syscall nodes.  Members are uint32 values except for at most one struct *)
(* member, of 8 or of 12 bytes, first or last in its member list.          *)
(***************************************************************************)
StructTypes == {StructType("lookup", <<8, 8>>), StructType("event", <<12, 12>>)}

Members(n, base, at, stype) ==
    [k \in 1..n |-> [name |-> base \o ToString(k),
                     type |-> IF k = at THEN stype ELSE uint32]]

MemberLists(max, base) ==
    UNION {{Members(n, base, 0, uint32)}
           \cup {Members(n, base, at, s) : at \in {1, n} \ {0}, s \in StructTypes}
           : n \in 0..max}

Numbers == {42}

Syscalls ==
    [number : Numbers, noreturn : BOOLEAN,
     input : MemberLists(MaxInputs, "in"),
     output : MemberLists(MaxOutputs, "out")]

NoSyscall == [number |-> 0, noreturn |-> FALSE, input |-> <<>>, output |-> <<>>]

(***************************************************************************)
(* generate_syscall_body, as steps over the record e of its local state:   *)
(* [pc, i, defined_regs, out, error].                                      *)
(***************************************************************************)
NoValue == <<>>

Raise(e, exception) == [e EXCEPT !.pc = "failed", !.error = exception]

Emit(e, line) == [e EXCEPT !.out = Append(@, line)]

RegVar(register) == "reg_" \o register

\* define_reg without the early return for a register already declared
define_reg_redeclare(e, a, register, value) ==
    IF value # NoValue /\ register \in e.defined_regs
    THEN Raise(e, "AssertionError")
    ELSE [Emit(e, [stmt |-> "register",
                   decl |-> vardecl(register_t(a), <<RegVar(register)>>, FALSE),
                   reg |-> register,
                   defn |-> value])
           EXCEPT !.defined_regs = @ \cup {register}]

define_reg(e, a, register, value) ==
    IF value = NoValue /\ register \in e.defined_regs
    THEN e
    ELSE IF value # NoValue /\ register \in e.defined_regs
    THEN Raise(e, "AssertionError")
    ELSE [Emit(e, [stmt |-> "register",
                   decl |-> vardecl(register_t(a), <<RegVar(register)>>, FALSE),
                   reg |-> register,
                   defn |-> value])
           EXCEPT !.defined_regs = @ \cup {register}]

check_okay(sc) == Len(sc.output) > 0

\* a register list indexed past its end: IndexError
InRange(registers, k) == k \in DOMAIN registers

\* indexing that wraps around instead of raising
InputRegister_wrap(a, k) ==
    [raised |-> FALSE,
     reg |-> input_registers(a)[((k - 1) % Len(input_registers(a))) + 1]]

InputRegister(a, k) ==
    IF InRange(input_registers(a), k)
    THEN [raised |-> FALSE, reg |-> input_registers(a)[k]]
    ELSE [raised |-> TRUE, reg |-> None]

\* the set defined_regs kept from the previous syscall
FreshRegs_keep(previous) == previous

FreshRegs(previous) == {}

\* lines 278-298: the opening brace, the empty set, the number register
StepBegin(a, sc, e) ==
    LET e0 == [pc |-> "inputs", i |-> 0,
               defined_regs |-> FreshRegs(e.defined_regs),
               out |-> <<[stmt |-> "open"]>>, error |-> "none"]
    IN  define_reg(e0, a, syscall_num_register(a), <<ToString(sc.number)>>)

\* lines 300-302: one iteration of the loop over the input members
StepInput(a, sc, e) ==
    LET k == e.i + 1
        p == sc.input[k]
        r == InputRegister(a, k)
        c == _ccast(p.type, register_t(a), p.name)
    IN  IF r.raised THEN Raise(e, "IndexError")
        ELSE IF c.raised THEN Raise(e, "Exception")
        ELSE [define_reg(e, a, r.reg, c.expr) EXCEPT !.i = k]

\* the loop over the input members is exhausted
StepInputsDone(a, sc, e) == [e EXCEPT !.pc = "outputs", !.i = 0]

\* lines 304-305: one iteration of the loop over the output members
StepOutput(a, sc, e) ==
    LET k == e.i + 1
    IN  IF ~InRange(output_registers(a), k) THEN Raise(e, "IndexError")
        ELSE [define_reg(e, a, output_registers(a)[k], NoValue) EXCEPT !.i = k]

\* lines 307-311: the error register and the status variable
StepErrno(a, sc, e) ==
    LET e1 == define_reg(e, a, errno_register(a), NoValue)
        e2 == IF check_okay(sc)
              THEN Emit(e1, [stmt |-> "okay",
                             decl |-> vardecl(okay_t(a), <<"okay">>, FALSE)])
              ELSE e1
    IN  [e2 EXCEPT !.pc = "asm", !.i = 0]

EmitAll(e, lines) == [e EXCEPT !.out = @ \o lines]

Sep(first) == IF first THEN ":" ELSE ","

FirstOutputRegisters(a, sc) ==
    {output_registers(a)[k] :
        k \in 1..Len(sc.output) \cap DOMAIN output_registers(a)}

\* the error register added whether or not an output register already is it
ErrnoOperand_always(a, sc, first) ==
    IF ~sc.noreturn
    THEN <<[stmt |-> "out_operand", sep |-> Sep(first),
            var |-> RegVar(errno_register(a))]>>
    ELSE <<>>

\* lines 326-331
ErrnoOperand(a, sc, first) ==
    IF ~sc.noreturn /\ errno_register(a) \notin FirstOutputRegisters(a, sc)
    THEN <<[stmt |-> "out_operand", sep |-> Sep(first),
            var |-> RegVar(errno_register(a))]>>
    ELSE <<>>

\* lines 318-333
OutputOperands(a, sc) ==
    LET okay == IF check_okay(sc)
                THEN <<[stmt |-> "out_operand", sep |-> Sep(TRUE),
                        var |-> "okay"]>>
                ELSE <<>>
        regs == [k \in 1..Len(sc.output) |->
                    [stmt |-> "out_operand",
                     sep |-> Sep(okay = <<>> /\ k = 1),
                     var |-> RegVar(output_registers(a)[k])]]
        errno == ErrnoOperand(a, sc, okay \o regs = <<>>)
        ops == okay \o regs \o errno
    IN  IF ops = <<>> THEN <<[stmt |-> "no_out_operands"]>> ELSE ops

\* lines 335-337
InputOperands(a, sc) ==
    <<[stmt |-> "in_operand", sep |-> ":",
       var |-> RegVar(syscall_num_register(a))]>>
    \o [k \in 1..Len(sc.input) |->
           [stmt |-> "in_operand", sep |-> ",",
            var |-> RegVar(input_registers(a)[k])]]

\* lines 313-339: the asm block
StepAsm(a, sc, e) ==
    [EmitAll(e, <<[stmt |-> "asm_open"], [stmt |-> "asm", text |-> asm(a)]>>
                \o (IF check_okay(sc)
                    THEN <<[stmt |-> "asm_check", text |-> asm_check(a)]>>
                    ELSE <<>>)
                \o OutputOperands(a, sc)
                \o InputOperands(a, sc)
                \o <<[stmt |-> "clobbers", list |-> clobbers(a)]>>)
      EXCEPT !.pc = "epilogue"]

\* lines 342-346: the stores of the output registers, from member k on
RECURSIVE Stores(_, _, _, _)
Stores(a, sc, e, k) ==
    IF k > Len(sc.output) THEN e
    ELSE LET p == sc.output[k]
             c == _ccast(register_t(a), p.type,
                         RegVar(output_registers(a)[k]))
         IN  IF c.raised THEN Raise(e, "Exception")
             ELSE Stores(a, sc,
                         Emit(e, [stmt |-> "store", name |-> p.name,
                                  expr |-> c.expr]),
                         k + 1)

\* lines 350-355
StepEnd(a, sc, e) ==
    [EmitAll(e, <<IF sc.noreturn
                  THEN [stmt |-> "loop"]
                  ELSE [stmt |-> "return",
                        value |-> RegVar(errno_register(a))],
                  [stmt |-> "close"]>>)
      EXCEPT !.pc = "done"]

\* lines 340-355: the write-back under the status check, and the end
StepEpilogue(a, sc, e) ==
    IF check_okay(sc)
    THEN LET e1 == Stores(a, sc, Emit(e, [stmt |-> "if_okay"]), 1)
         IN  IF e1.pc = "failed" THEN e1
             ELSE StepEnd(a, sc, EmitAll(e1, <<[stmt |-> "return", value |-> "0"],
                                            [stmt |-> "endif"]>>))
    ELSE StepEnd(a, sc, e)

(***************************************************************************)
(* The generator of syscall bodies: one CSyscallsImplGenerator, driven     *)
(* through generate_syscall_body once per syscall.  An exception is fatal: *)
(* nothing runs after it.                                                  *)
(***************************************************************************)
Env == [pc |-> pc, i |-> i, defined_regs |-> defined_regs, out |-> out,
        error |-> error]

Commit(e) ==
    /\ pc' = e.pc
    /\ i' = e.i
    /\ defined_regs' = e.defined_regs
    /\ out' = e.out
    /\ error' = e.error

NoMdType == [present |-> FALSE, size |-> <<0, 0>>]

DefsIdle == md_type = NoMdType /\ arg = <<>> /\ result = <<>> /\ called = "none"

Init ==
    /\ arch \in Archs
    /\ syscall = NoSyscall
    /\ pc = "idle"
    /\ i = 0
    /\ defined_regs = {}
    /\ out = <<>>
    /\ error = "none"
    /\ generated = 0
    /\ DefsIdle

GenerateSyscallBody ==
    /\ pc \in {"idle", "done"}
    /\ generated < MaxSyscalls
    /\ \E sc \in Syscalls :
          /\ syscall' = sc
          /\ Commit(StepBegin(arch, sc, Env))
    /\ generated' = generated + 1
    /\ UNCHANGED <<arch, defvars>>

DefineInput ==
    /\ pc = "inputs"
    /\ i < Len(syscall.input)
    /\ Commit(StepInput(arch, syscall, Env))
    /\ UNCHANGED <<arch, syscall, generated, defvars>>

InputsDone ==
    /\ pc = "inputs"
    /\ i = Len(syscall.input)
    /\ Commit(StepInputsDone(arch, syscall, Env))
    /\ UNCHANGED <<arch, syscall, generated, defvars>>

DefineOutput ==
    /\ pc = "outputs"
    /\ i < Len(syscall.output)
    /\ Commit(StepOutput(arch, syscall, Env))
    /\ UNCHANGED <<arch, syscall, generated, defvars>>

DefineErrno ==
    /\ pc = "outputs"
    /\ i = Len(syscall.output)
    /\ Commit(StepErrno(arch, syscall, Env))
    /\ UNCHANGED <<arch, syscall, generated, defvars>>

EmitAsm ==
    /\ pc = "asm"
    /\ Commit(StepAsm(arch, syscall, Env))
    /\ UNCHANGED <<arch, syscall, generated, defvars>>

EmitEpilogue ==
    /\ pc = "epilogue"
    /\ Commit(StepEpilogue(arch, syscall, Env))
    /\ UNCHANGED <<arch, syscall, generated, defvars>>

Next ==
    \/ GenerateSyscallBody
    \/ DefineInput
    \/ InputsDone
    \/ DefineOutput
    \/ DefineErrno
    \/ EmitAsm
    \/ EmitEpilogue

Spec == Init /\ [][Next]_vars

(***************************************************************************)
(* The body a fresh generator prints for syscall sc alone.                 *)
(***************************************************************************)
FreshEnv == [pc |-> "idle", i |-> 0, defined_regs |-> {}, out |-> <<>>,
             error |-> "none"]

Step(a, sc, e) ==
    CASE e.pc = "inputs" /\ e.i < Len(sc.input) -> StepInput(a, sc, e)
      [] e.pc = "inputs" /\ e.i = Len(sc.input) -> StepInputsDone(a, sc, e)
      [] e.pc = "outputs" /\ e.i < Len(sc.output) -> StepOutput(a, sc, e)
      [] e.pc = "outputs" /\ e.i = Len(sc.output) -> StepErrno(a, sc, e)
      [] e.pc = "asm" -> StepAsm(a, sc, e)
      [] e.pc = "epilogue" -> StepEpilogue(a, sc, e)

RECURSIVE Run(_, _, _)
Run(a, sc, e) ==
    IF e.pc \in {"done", "failed"} THEN e ELSE Run(a, sc, Step(a, sc, e))

Alone(a, sc) == Run(a, sc, StepBegin(a, sc, FreshEnv))

(***************************************************************************)
(* Properties of generate_syscall_body.                                    *)
(***************************************************************************)
Lines(kind) == SelectSeq(out, LAMBDA l : l.stmt = kind)

Count(seq, P(_)) == Cardinality({k \in DOMAIN seq : P(seq[k])})

NumInputs == Len(syscall.input)
NumOutputs == Len(syscall.output)

AsmEmitted == Lines("asm_open") # <<>>

\* the declarations of lines 298-311 are all printed
Declared == pc = "asm" \/ AsmEmitted

ExpectedRegs ==
    {syscall_num_register(arch)}
    \cup {input_registers(arch)[k] : k \in 1..NumInputs}
    \cup {output_registers(arch)[k] : k \in 1..NumOutputs}
    \cup {errno_register(arch)}

\* C1: once the declarations of a syscall with at most as many inputs as
\* input registers and at most as many outputs as output registers are
\* printed, the registers bound to variables are exactly the number
\* register, the first N input registers, the first M output registers and
\* the error register, and each of them is declared exactly once, as a
\* variable reg_<register> of the register type.
C1_RegistersDeclaredOnce ==
    (/\ Declared
     /\ NumInputs <= Len(input_registers(arch))
     /\ NumOutputs <= Len(output_registers(arch)))
    => LET decls == Lines("register")
       IN  /\ {decls[k].reg : k \in DOMAIN decls} = ExpectedRegs
           /\ \A r \in ExpectedRegs :
                 Count(decls, LAMBDA l : l.reg = r) = 1
           /\ \A k \in DOMAIN decls :
                 decls[k].decl = <<"uint64_t", " ", "reg_" \o decls[k].reg>>

\* rax is number, first output and error register; rdx is third input and
\* second output
C1_Witness ==
    /\ pc = "done"
    /\ arch = "x86_64"
    /\ NumInputs >= 3
    /\ NumOutputs = 2

\* C2: the finished body of a noreturn syscall holds no return statement,
\* ends with the infinite loop as its last statement and does not declare
\* the status variable okay, whatever its member lists.
C2_NoreturnBody ==
    (pc = "done" /\ syscall.noreturn)
    => /\ Lines("return") = <<>>
       /\ out[Len(out) - 1].stmt = "loop"
       /\ out[Len(out)].stmt = "close"
       /\ Lines("okay") = <<>>

\* C6: a syscall with more input members than the architecture has input
\* registers never gets past the loop over its inputs: generation ends
\* there with an exception, and no line of the asm block is ever printed
\* for it.
C6_ExhaustionBeforeAsm ==
    (pc # "idle" /\ NumInputs > Len(input_registers(arch)))
    => /\ pc \in {"inputs", "failed"}
       /\ pc = "inputs" => i <= Len(input_registers(arch))
       /\ pc = "failed" => error \in {"IndexError", "Exception"}
       /\ \A k \in DOMAIN out :
             out[k].stmt \notin {"asm_open", "asm", "asm_check", "out_operand",
                                 "no_out_operands", "in_operand", "clobbers"}

C6_Witness ==
    /\ pc = "failed"
    /\ error = "IndexError"
    /\ NumInputs > Len(input_registers(arch))
    /\ i = Len(input_registers(arch))

\* C9: in the asm block of a syscall with at most as many outputs as output
\* registers, the variable of the error register is an output operand
\* exactly once when the syscall is not noreturn; with at least one output
\* member okay is the first output operand and the status check is
\* printed; a noreturn syscall without outputs has an empty output list.
C9_OutputOperands ==
    (AsmEmitted /\ NumOutputs <= Len(output_registers(arch)))
    => LET ops == Lines("out_operand")
       IN  /\ ~syscall.noreturn =>
                Count(ops, LAMBDA l : l.var = RegVar(errno_register(arch))) = 1
           /\ NumOutputs >= 1 =>
                /\ ops[1].var = "okay"
                /\ Len(Lines("asm_check")) = 1
                /\ Len(ops) >= 1 + NumOutputs
           /\ (syscall.noreturn /\ NumOutputs = 0) =>
                /\ ops = <<>>
                /\ Len(Lines("no_out_operands")) = 1
           /\ \A k \in DOMAIN ops : ops[k].sep = Sep(k = 1)

\* the error register is the extra operand
C9_Witness ==
    /\ pc = "done"
    /\ ~syscall.noreturn
    /\ NumOutputs = 0
    /\ Lines("out_operand") =
          <<[stmt |-> "out_operand", sep |-> ":",
             var |-> RegVar(errno_register(arch))]>>

\* C10: whatever syscalls a generator produced before, what it prints for
\* a syscall, and the exception it ends with if any, are what a fresh
\* generator prints for that syscall alone; and the assertion of
\* define_reg never fails for a syscall with at most as many inputs as
\* input registers.
C10_PerSyscallRegisters ==
    /\ pc \in {"done", "failed"} =>
          /\ out = Alone(arch, syscall).out
          /\ error = Alone(arch, syscall).error
    /\ NumInputs <= Len(input_registers(arch)) => error # "AssertionError"

C10_Witness ==
    /\ generated = 2
    /\ pc = "done"
    /\ NumInputs >= 3
    /\ NumOutputs >= 1

(***************************************************************************)
(* CNaming.vardecl applied to nests of pointers and arrays over uint32.    *)
(***************************************************************************)
Counts == {2, 3}

RECURSIVE DeclTypes(_)
DeclTypes(depth) ==
    IF depth = 0 THEN {uint32}
    ELSE LET inner == DeclTypes(depth - 1)
         IN  inner
             \cup {PointerType(t, c) : t \in inner, c \in BOOLEAN}
             \cup {ArrayType(n, t) : n \in Counts, t \in inner}

SysIdle ==
    /\ syscall = NoSyscall
    /\ pc = "idle"
    /\ i = 0
    /\ defined_regs = {}
    /\ out = <<>>
    /\ error = "none"
    /\ generated = 0

InitVardecl ==
    /\ arch = "x86_64"
    /\ SysIdle
    /\ md_type = NoMdType
    /\ arg \in [type : DeclTypes(MaxDepth), name : {"x"}]
    /\ result = <<>>
    /\ called = "none"

Vardecl ==
    /\ called = "none"
    /\ result' = vardecl(arg.type, <<arg.name>>, FALSE)
    /\ called' = "vardecl"
    /\ UNCHANGED <<sysvars, md_type, arg>>

SpecVardecl == InitVardecl /\ [][Vardecl]_vars

RECURSIVE NumPointers(_)
NumPointers(t) ==
    IF t.kind = "pointer" THEN 1 + NumPointers(t.target_type)
    ELSE IF t.kind = "array" THEN NumPointers(t.element_type)
    ELSE 0

\* the counts of the Array nodes, outermost first
RECURSIVE ArrayCounts(_)
ArrayCounts(t) ==
    IF t.kind = "pointer" THEN ArrayCounts(t.target_type)
    ELSE IF t.kind = "array"
    THEN <<ToString(t.count)>> \o ArrayCounts(t.element_type)
    ELSE <<>>

\* the Array nodes that are the direct target of a Pointer node
RECURSIVE NumPointedArrays(_)
NumPointedArrays(t) ==
    IF t.kind = "pointer"
    THEN (IF t.target_type.kind = "array" THEN 1 ELSE 0)
         + NumPointedArrays(t.target_type)
    ELSE IF t.kind = "array" THEN NumPointedArrays(t.element_type)
    ELSE 0

Occurrences(seq, token) == Cardinality({k \in DOMAIN seq : seq[k] = token})

\* the tokens that follow each "[" of a declarator, left to right
Suffixes(decl) ==
    LET at == SelectSeq([k \in 1..Len(decl) |-> k], LAMBDA k : decl[k] = "[")
    IN  [k \in DOMAIN at |-> decl[at[k] + 1]]

\* C8: the declarator of a nest of Pointer and Array nodes over a scalar
\* holds one "*" per Pointer node and one "[count]" per Array node, the
\* counts reading outermost to innermost from left to right, and one pair
\* of parentheses for each Array node that is the direct target of a
\* Pointer node and for no other: each pair opens before a "*" and closes
\* before a "[".
C8_Declarator ==
    called = "vardecl"
    => LET t == arg.type
           d == result
       IN  /\ Occurrences(d, "*") = NumPointers(t)
           /\ Suffixes(d) = ArrayCounts(t)
           /\ Occurrences(d, "]") = Len(ArrayCounts(t))
           /\ Occurrences(d, "(") = NumPointedArrays(t)
           /\ Occurrences(d, ")") = NumPointedArrays(t)
           /\ \A k \in DOMAIN d :
                 /\ d[k] = "(" => d[k + 1] = "*"
                 /\ d[k] = ")" => d[k + 1] = "["
           /\ Occurrences(d, arg.name) = 1

\* a pointer to an array of arrays: one pair of parentheses, two suffixes
C8_Witness ==
    /\ called = "vardecl"
    /\ arg.type = PointerType(ArrayType(2, ArrayType(3, uint32)), FALSE)
    /\ result = <<"uint32_t", " ", "(", "*", "x", ")", "[", "2", "]",
                  "[", "3", "]">>

(***************************************************************************)
(* CSyscallsImplGenerator._ccast applied to pairs of types.                *)
(***************************************************************************)
CastTypes ==
    {uint32, uint64, char, PointerType(VoidType, FALSE),
     StructType("lookup", <<8, 8>>), StructType("event", <<12, 12>>),
     StructType("iovec", <<8, 16>>)}

InitCcast ==
    /\ arch \in Archs
    /\ SysIdle
    /\ md_type = NoMdType
    /\ arg \in [type_from : CastTypes, type_to : CastTypes,
                name : {"in1", "reg_rax"}]
    /\ result = <<>>
    /\ called = "none"

Ccast ==
    /\ called = "none"
    /\ result' = _ccast(arg.type_from, arg.type_to, arg.name)
    /\ called' = "_ccast"
    /\ UNCHANGED <<sysvars, md_type, arg>>

SpecCcast == InitCcast /\ [][Ccast]_vars

\* the name of a scalar or struct type, as C spells it
CName(t) ==
    IF t.kind = "struct" THEN "cloudabi_" \o t.name \o "_t"
    ELSE IF t.name = "char" THEN "char"
    ELSE t.name \o "_t"

\* C5: a cast between a struct and the register type, either way, raises
\* exactly when the struct's size is not the register's 8 bytes, and then
\* yields no expression; otherwise it is the dereference of a reinterpreted
\* pointer, *(T *)&name.  A cast with no struct on either side never
\* raises and is the value cast (T)name.
C5_StructRegisterCast ==
    called = "_ccast"
    => LET f == arg.type_from
           t == arg.type_to
       IN  /\ (f.kind = "struct" /\ t = register_t(arch)) =>
                 /\ result.raised <=> f.size # <<8, 8>>
                 /\ ~result.raised =>
                       result.expr = <<"*", "(", "uint64_t", " ", "*", ")",
                                       "&", arg.name>>
           /\ (f = register_t(arch) /\ t.kind = "struct") =>
                 /\ result.raised <=> t.size # <<8, 8>>
                 /\ ~result.raised =>
                       result.expr = <<"*", "(", CName(t), " ", "*", ")",
                                       "&", arg.name>>
           /\ result.raised => result.expr = <<>>
           /\ (f.kind # "struct" /\ t.kind # "struct") =>
                 /\ ~result.raised
                 /\ result.expr[1] = "("
                 /\ result.expr[Len(result.expr) - 1] = ")"
                 /\ result.expr[Len(result.expr)] = arg.name
                 /\ t.kind = "int" =>
                       result.expr = <<"(", CName(t), ")", arg.name>>

\* a 12-byte struct cast into the register type
C5_Witness ==
    /\ called = "_ccast"
    /\ arg.type_from = StructType("event", <<12, 12>>)
    /\ arg.type_to = register_t(arch)
    /\ result.raised

(***************************************************************************)
(* CSyscalldefsGenerator, constructed with machine_dep = None.             *)
(* md_type is [present, size]: present is FALSE for md_type = None.        *)
(***************************************************************************)
MdType(size) == [present |-> TRUE, size |-> size]

MdTypes == {NoMdType, MdType(<<4, 4>>), MdType(<<8, 8>>), MdType(<<4, 8>>)}

\* the single assertion always checks the 64-bit value
generate_layout_assert_v64(md, expression, value) ==
    IF value[1] = value[2] \/ (md.present /\ md.size \in {<<4, 4>>, <<8, 8>>})
    THEN <<[stmt |-> "static_assert", expression |-> expression,
            value |-> value[2]]>>
    ELSE LET voidptr == typename(PointerType(VoidType, FALSE))
         IN  <<[stmt |-> "static_assert_guarded", voidptr |-> voidptr,
                width |-> 4, expression |-> expression, value |-> value[1]],
               [stmt |-> "static_assert_guarded", voidptr |-> voidptr,
                width |-> 8, expression |-> expression, value |-> value[2]]>>

\* lines 216-230; value is <<value[0], value[1]>> of the source
generate_layout_assert(md, expression, value) ==
    IF value[1] = value[2] \/ (md.present /\ md.size \in {<<4, 4>>, <<8, 8>>})
    THEN LET v == IF md.present /\ md.size = <<4, 4>>
                  THEN value[1]
                  ELSE value[2]
         IN  <<[stmt |-> "static_assert", expression |-> expression,
                value |-> v]>>
    ELSE LET voidptr == typename(PointerType(VoidType, FALSE))
         IN  <<[stmt |-> "static_assert_guarded", voidptr |-> voidptr,
                width |-> 4, expression |-> expression, value |-> value[1]],
               [stmt |-> "static_assert_guarded", voidptr |-> voidptr,
                width |-> 8, expression |-> expression, value |-> value[2]]>>

generate_offset_assert(md, type_name, member_name, offset) ==
    generate_layout_assert(md, <<"offsetof", type_name, member_name>>, offset)

generate_size_assert(md, type_name, size) ==
    generate_layout_assert(md, <<"sizeof", type_name>>, size)

generate_align_assert(md, type_name, align) ==
    generate_layout_assert(md, <<"_Alignof", type_name>>, align)

(***************************************************************************)
(* Struct members.  A SimpleStructMember is [kind "simple", name, offset], *)
(* a VariantStructMember [kind "variant", offset, members], its members    *)
(* VariantMember nodes [kind "arm", name, type], type a struct with        *)
(* members.  NoOffset stands for offset = None.                            *)
(***************************************************************************)
NoOffset == <<>>

SimpleStructMember(name, offset) ==
    [kind |-> "simple", name |-> name, offset |-> offset]

VariantStructMember(offset, members) ==
    [kind |-> "variant", name |-> None, offset |-> offset, members |-> members]

VariantMember(name, members) ==
    [kind |-> "arm", name |-> name, type |-> [members |-> members]]

RECURSIVE generate_offset_asserts_flat(_, _, _, _, _)
RECURSIVE generate_offset_asserts(_, _, _, _, _)

\* the members of a variant asserted at the enclosing offset
generate_offset_asserts_flat(md, type_name, members, mprefix, offset) ==
    IF members = <<>> THEN <<>>
    ELSE LET m == Head(members)
             here ==
               IF m.kind = "arm"
               THEN generate_offset_asserts(
                        md, type_name, m.type.members,
                        IF m.name # None THEN mprefix \o m.name \o "."
                                         ELSE mprefix,
                        offset)
               ELSE IF m.offset # NoOffset
               THEN LET moffset == <<offset[1] + m.offset[1],
                                     offset[2] + m.offset[2]>>
                    IN  IF m.kind = "variant"
                        THEN generate_offset_asserts(
                                 md, type_name, m.members, mprefix, offset)
                        ELSE generate_offset_assert(
                                 md, type_name, mprefix \o m.name, moffset)
               ELSE <<>>
         IN  here \o generate_offset_asserts(
                         md, type_name, Tail(members), mprefix, offset)

\* lines 188-204
generate_offset_asserts(md, type_name, members, mprefix, offset) ==
    IF members = <<>> THEN <<>>
    ELSE LET m == Head(members)
             here ==
               IF m.kind = "arm"
               THEN generate_offset_asserts(
                        md, type_name, m.type.members,
                        IF m.name # None THEN mprefix \o m.name \o "."
                                         ELSE mprefix,
                        offset)
               ELSE IF m.offset # NoOffset
               THEN LET moffset == <<offset[1] + m.offset[1],
                                     offset[2] + m.offset[2]>>
                    IN  IF m.kind = "variant"
                        THEN generate_offset_asserts(
                                 md, type_name, m.members, mprefix, moffset)
                        ELSE generate_offset_assert(
                                 md, type_name, mprefix \o m.name, moffset)
               ELSE <<>>
         IN  here \o generate_offset_asserts(
                         md, type_name, Tail(members), mprefix, offset)

(***************************************************************************)
(* Number formatting, as str.format does it: digits are single characters. *)
(***************************************************************************)
Digits == <<"0", "1", "2", "3", "4", "5", "6", "7", "8", "9",
            "a", "b", "c", "d", "e", "f">>

RECURSIVE ToBase(_, _)
ToBase(n, base) ==
    IF n < base THEN <<Digits[n + 1]>>
    ELSE ToBase(n \div base, base) \o <<Digits[(n % base) + 1]>>

PadLeft(chars, width, fill) ==
    [k \in 1..(width - Len(chars)) |-> fill] \o chars

\* '{:<width>d}' and '{:#0<width>x}'
Format(val, val_format) ==
    IF val_format.conv = "x"
    THEN <<"0", "x">> \o PadLeft(ToBase(val, 16), val_format.width - 2, "0")
    ELSE PadLeft(ToBase(val, 10), val_format.width, " ")

Max(S) == CHOOSE m \in S : \A n \in S : n <= m

(***************************************************************************)
(* IntLike types: [kind, name, cprefix, int_type, size, values].           *)
(***************************************************************************)
uint8 == IntType("uint8", <<1, 1>>)
uint16 == IntType("uint16", <<2, 2>>)

IntLikeKinds == {"enum", "flags", "opaque"}

LowerCase == <<"cloudabi_", "right_", "read", "write", "exec", "append">>
UpperCase == <<"CLOUDABI_", "RIGHT_", "READ", "WRITE", "EXEC", "APPEND">>

\* str.upper, which maps a concatenation piece by piece
Upper(str) == UpperCase[CHOOSE k \in DOMAIN LowerCase : LowerCase[k] = str]

valname(type, value) == Upper(prefix) \o Upper(type.cprefix) \o Upper(value.name)

\* hexadecimal unless the first value is zero, however many values follow
val_format_firstzero(type) ==
    IF type.kind \in {"flags", "opaque"}
    THEN IF type.values[1].value = 0
         THEN [conv |-> "d", width |-> 0]
         ELSE [conv |-> "x", width |-> type.size[1] * 2 + 2]
    ELSE [conv |-> "d",
          width |-> Max({Len(ToBase(type.values[k].value, 10)) :
                            k \in DOMAIN type.values})]

\* lines 141-150
val_format(type) ==
    IF type.kind \in {"flags", "opaque"}
    THEN IF Len(type.values) = 1 /\ type.values[1].value = 0
         THEN [conv |-> "d", width |-> 0]
         ELSE [conv |-> "x", width |-> type.size[1] * 2 + 2]
    ELSE [conv |-> "d",
          width |-> Max({Len(ToBase(type.values[k].value, 10)) :
                            k \in DOMAIN type.values})]

\* lines 135-158 and 186: generate_type of an IntLike type
generate_type(type) ==
    <<[stmt |-> "typedef",
       decl |-> vardecl(type.int_type, typename(type), FALSE)]>>
    \o (IF Len(type.values) > 0
        THEN LET width == Max({Len(valname(type, type.values[k])) :
                                  k \in DOMAIN type.values})
             IN  [k \in DOMAIN type.values |->
                     [stmt |-> "define",
                      name |-> valname(type, type.values[k]),
                      pad |-> width - Len(valname(type, type.values[k])),
                      val |-> Format(type.values[k].value, val_format(type))]]
        ELSE <<>>)
    \o <<[stmt |-> "blank"]>>

(***************************************************************************)
(* The arguments the calls are made with.                                  *)
(***************************************************************************)
ValueSet == {0, 1, 2, 10, 255}

ValueNames == <<"read", "write", "exec", "append">>

ValueLists ==
    UNION {{[k \in 1..n |-> [name |-> ValueNames[k], value |-> f[k]]] :
               f \in [1..n -> ValueSet]} : n \in 0..MaxValues}

IntLikeTypes ==
    {[kind |-> kind, name |-> "rights", cprefix |-> "right_",
      int_type |-> it, size |-> it.size, values |-> vs] :
        kind \in IntLikeKinds, it \in {uint8, uint16}, vs \in ValueLists}

Offsets == {<<0, 0>>, <<4, 8>>}

InnerArms ==
    {VariantMember(n, <<SimpleStructMember("z", o)>>) :
        n \in {None, "b"}, o \in Offsets}

InnerVariants ==
    {VariantStructMember(o, <<a>>) : o \in Offsets, a \in InnerArms}

Arms ==
    {VariantMember(n, <<m>>) :
        n \in {None, "a"},
        m \in {SimpleStructMember("y", o) : o \in Offsets} \cup InnerVariants}

Variants ==
    {VariantStructMember(o, as) :
        o \in Offsets,
        as \in {<<a>> : a \in Arms} \cup {<<a, b>> : a \in Arms, b \in Arms}}

RawMembers ==
    {<<SimpleStructMember("x", o)>> : o \in Offsets}
    \cup {<<v>> : v \in Variants}
    \cup {<<SimpleStructMember("x", o), v>> : o \in Offsets, v \in Variants}

StructNodes ==
    {[kind |-> "struct", name |-> "event", raw_members |-> ms] :
        ms \in RawMembers}

LayoutValues == (0..MaxLayout) \X (0..MaxLayout)

InitDefs ==
    /\ arch = "x86_64"
    /\ SysIdle
    /\ \/ /\ md_type \in MdTypes
          /\ arg \in [expression : {<<"sizeof", "cloudabi_event_t">>},
                      value : LayoutValues]
          /\ called = "layout"
       \/ /\ md_type \in MdTypes
          /\ arg \in [type : StructNodes]
          /\ called = "offsets"
       \/ /\ md_type = NoMdType
          /\ arg \in [type : IntLikeTypes]
          /\ called = "type"
    /\ result = <<>>

GenerateLayoutAssert ==
    /\ called = "layout"
    /\ result' = generate_layout_assert(md_type, arg.expression, arg.value)
    /\ called' = "generate_layout_assert"
    /\ UNCHANGED <<sysvars, md_type, arg>>

GenerateOffsetAsserts ==
    /\ called = "offsets"
    /\ result' = generate_offset_asserts(md_type, typename(arg.type)[1],
                                         arg.type.raw_members, "", <<0, 0>>)
    /\ called' = "generate_offset_asserts"
    /\ UNCHANGED <<sysvars, md_type, arg>>

GenerateType ==
    /\ called = "type"
    /\ result' = generate_type(arg.type)
    /\ called' = "generate_type"
    /\ UNCHANGED <<sysvars, md_type, arg>>

NextDefs ==
    \/ GenerateLayoutAssert
    \/ GenerateOffsetAsserts
    \/ GenerateType

SpecDefs == InitDefs /\ [][NextDefs]_vars

(***************************************************************************)
(* Properties of CSyscalldefsGenerator.                                    *)
(***************************************************************************)
Unguarded(expression, v) ==
    [stmt |-> "static_assert", expression |-> expression, value |-> v]

Guarded(width, expression, v) ==
    [stmt |-> "static_assert_guarded", voidptr |-> <<"void", " ", "*">>,
     width |-> width, expression |-> expression, value |-> v]

\* C3: without md_type, generate_layout_assert prints one unguarded
\* assertion of the common value when the two values are equal, and
\* otherwise two assertions, the first guarded on sizeof(void *) being 4
\* and checking the first value, the second guarded on it being 8 and
\* checking the second; with an md_type of size (4, 4) it prints one
\* unguarded assertion of the first value, with one of size (8, 8) one of
\* the second, whether or not the values differ.
C3_LayoutAssert ==
    called = "generate_layout_assert"
    => LET v == arg.value
           x == arg.expression
       IN  /\ (~md_type.present /\ v[1] = v[2]) =>
                 result = <<Unguarded(x, v[1])>>
           /\ (~md_type.present /\ v[1] # v[2]) =>
                 result = <<Guarded(4, x, v[1]), Guarded(8, x, v[2])>>
           /\ (md_type.present /\ md_type.size = <<4, 4>>) =>
                 result = <<Unguarded(x, v[1])>>
           /\ (md_type.present /\ md_type.size = <<8, 8>>) =>
                 result = <<Unguarded(x, v[2])>>

\* a fixed width of 4 picks the first of two different values
C3_Witness ==
    /\ called = "generate_layout_assert"
    /\ md_type = MdType(<<4, 4>>)
    /\ arg.value = <<1, 2>>
    /\ result = <<Unguarded(arg.expression, 1)>>

\* the index paths of the leaf simple members under a member list: the
\* index of a member, then for a variant the index of an arm and a path
\* under that arm
RECURSIVE LeafPaths(_)
LeafPaths(members) ==
    UNION {IF members[k].kind = "simple" THEN {<<k>>}
           ELSE UNION {{<<k, j>> \o path :
                           path \in LeafPaths(members[k].members[j].type.members)} :
                       j \in DOMAIN members[k].members} :
           k \in DOMAIN members}

\* the sum of the offsets of the variants a path runs through and of its leaf
RECURSIVE PathOffset(_, _)
PathOffset(members, path) ==
    LET m == members[path[1]]
    IN  IF Len(path) = 1 THEN m.offset
        ELSE LET rest == PathOffset(m.members[path[2]].type.members,
                                    SubSeq(path, 3, Len(path)))
             IN  <<m.offset[1] + rest[1], m.offset[2] + rest[2]>>

\* the names of the named arms a path runs through, then the leaf's name
RECURSIVE PathName(_, _)
PathName(members, path) ==
    LET m == members[path[1]]
    IN  IF Len(path) = 1 THEN m.name
        ELSE LET arm == m.members[path[2]]
             IN  (IF arm.name # None THEN arm.name \o "." ELSE "")
                 \o PathName(arm.type.members, SubSeq(path, 3, Len(path)))

\* path p comes before path q in the order of declaration
Before(p, q) ==
    \E k \in DOMAIN p \cap DOMAIN q :
        /\ p[k] < q[k]
        /\ \A j \in 1..(k - 1) : p[j] = q[j]

\* the offset assertions of the leaves at the paths of S, in that order
RECURSIVE LeafAsserts(_, _, _)
LeafAsserts(type_name, members, S) ==
    IF S = {} THEN <<>>
    ELSE LET p == CHOOSE p \in S : \A q \in S \ {p} : Before(p, q)
         IN  generate_layout_assert(
                 md_type,
                 <<"offsetof", type_name, PathName(members, p)>>,
                 PathOffset(members, p))
             \o LeafAsserts(type_name, members, S \ {p})

\* C4: generate_offset_asserts prints, in the order of declaration, the
\* offset assertion of every leaf simple member of the struct, those
\* inside arms of variants at any depth included; the pair asserted is the
\* component-wise sum of the offsets of the enclosing variants and of the
\* leaf, and the member path names exactly the named arms around the leaf.
C4_OffsetAsserts ==
    called = "generate_offset_asserts"
    => result = LeafAsserts("cloudabi_event_t", arg.type.raw_members,
                            LeafPaths(arg.type.raw_members))

\* a leaf at offset (0, 0) in a named arm of a variant at (4, 8), itself
\* in an unnamed arm of a variant at (4, 8): asserted at (8, 16) as b.z
C4_Witness ==
    /\ called = "generate_offset_asserts"
    /\ ~md_type.present
    /\ arg.type.raw_members =
          <<VariantStructMember(<<4, 8>>,
              <<VariantMember(None,
                  <<VariantStructMember(<<4, 8>>,
                      <<VariantMember("b",
                          <<SimpleStructMember("z", <<0, 0>>)>>)>>)>>)>>)>>
    /\ result = <<Guarded(4, <<"offsetof", "cloudabi_event_t", "b.z">>, 8),
                  Guarded(8, <<"offsetof", "cloudabi_event_t", "b.z">>, 16)>>

HexDigits == {Digits[k] : k \in DOMAIN Digits}

\* the number a sequence of hexadecimal digits denotes
RECURSIVE HexValue(_)
HexValue(chars) ==
    IF chars = <<>> THEN 0
    ELSE 16 * HexValue(SubSeq(chars, 1, Len(chars) - 1))
         + (CHOOSE d \in 0..15 : Digits[d + 1] = chars[Len(chars)])

\* chars is 0x and zero-padded hexadecimal digits, width characters in
\* all, and denotes n
IsPaddedHex(chars, width, n) ==
    /\ Len(chars) = width
    /\ chars[1] = "0"
    /\ chars[2] = "x"
    /\ \A k \in 3..width : chars[k] \in HexDigits
    /\ HexValue(SubSeq(chars, 3, width)) = n

\* the number a sequence of blanks and decimal digits denotes
RECURSIVE DecValue(_)
DecValue(chars) ==
    IF chars = <<>> THEN 0
    ELSE IF chars[Len(chars)] = " " THEN 0
    ELSE 10 * DecValue(SubSeq(chars, 1, Len(chars) - 1))
         + (CHOOSE d \in 0..9 : Digits[d + 1] = chars[Len(chars)])

IsDecimal(chars, n) ==
    /\ \A k \in DOMAIN chars : chars[k] \in {" "} \cup {Digits[d] : d \in 1..10}
    /\ \A k \in 1..(Len(chars) - 1) : chars[k + 1] = " " => chars[k] = " "
    /\ chars[Len(chars)] # " "
    /\ DecValue(chars) = n

Defines == SelectSeq(result, LAMBDA l : l.stmt = "define")

SingleZero(type) == Len(type.values) = 1 /\ type.values[1].value = 0

\* C7, as claimed: for an Enum, Flags or Opaque type of byte size s whose
\* value list is not the single value zero, every #define value is
\* zero-padded hexadecimal of width 2*s+2.
C7_HexForEveryIntLike ==
    (called = "generate_type" /\ ~SingleZero(arg.type))
    => /\ Len(Defines) = Len(arg.type.values)
       /\ \A k \in DOMAIN Defines :
             IsPaddedHex(Defines[k].val, 2 * arg.type.size[1] + 2,
                         arg.type.values[k].value)

\* C7, amended: the values of a Flags or Opaque type of byte size s whose
\* value list is not the single value zero are printed as zero-padded
\* hexadecimal of width 2*s+2; the values of an Enum type are printed in
\* decimal, right-aligned to the width of the widest of them.
C7_HexForFlagsAndOpaque ==
    (called = "generate_type" /\ ~SingleZero(arg.type))
    => /\ Len(Defines) = Len(arg.type.values)
       /\ \A k \in DOMAIN Defines :
             IF arg.type.kind \in {"flags", "opaque"}
             THEN IsPaddedHex(Defines[k].val, 2 * arg.type.size[1] + 2,
                              arg.type.values[k].value)
             ELSE /\ IsDecimal(Defines[k].val, arg.type.values[k].value)
                  /\ \A j \in DOMAIN Defines :
                        Len(Defines[j].val) = Len(Defines[k].val)

\* flags {READ = 1, WRITE = 2} of one byte: 0x01 and 0x02
C7_Witness ==
    /\ called = "generate_type"
    /\ arg.type.kind = "flags"
    /\ arg.type.size = <<1, 1>>
    /\ Len(Defines) = 2
    /\ Defines[1].val = <<"0", "x", "0", "1">>
    /\ Defines[2].val = <<"0", "x", "0", "2">>

=============================================================================
